---- MODULE Spec2Model ----
(***************************************************************************)
(* Model of pgBouncerInstance                                              *)
(* (internal/pgbouncer/management/controller/instance.go): a cached        *)
(* "paused" flag guarded by a sync.RWMutex, and the Pause / Resume /       *)
(* Paused methods called concurrently by several goroutines.               *)
(*                                                                         *)
(* Every goroutine p runs one method call at a time; pc[p] is its position *)
(* in the method, the other per-goroutine variables are the method's       *)
(* locals.  The pgbouncer process and the connection pool are the          *)
(* environment: a connection request or a command execution succeeds or    *)
(* fails nondeterministically; a command that returns an error may or may  *)
(* not have been run by pgbouncer.  The variables commented "history"      *)
(* record what has happened and influence no step.                         *)
(***************************************************************************)
EXTENDS Integers, FiniteSets, Sequences, TLC

\* Number of goroutines calling the instance concurrently.
NumProcs == 2

\* retry.DefaultBackoff.Steps: the number of attempts retry.OnError makes.
BackoffSteps == 4

Procs == 1..NumProcs

\* "No goroutine": the value of writer when the exclusive lock is free.
NoProc == 0

\* An error value is the chain of its messages, outermost first, as
\* errors.Unwrap walks it; the nil error is the empty chain.
Nil == <<>>

\* Errors p.pool.Connection can return.
ConnErrs == {<<"connRefused">>}

\* os.ErrNotExist
ErrNotExist == <<"ErrNotExist">>

\* Errors db.Exec can return: os.ErrNotExist (socket not there yet) and
\* one error of another kind.
ExecErrs == {ErrNotExist, <<"permission">>}

\* fmt.Errorf("<msg>: %w", e)
Wrap(msg, e) == <<msg>> \o e

\* errors.Is(e, target), for a target that wraps nothing
ErrorsIs(e, target) == \E i \in 1..Len(e) : <<e[i]>> = target

ConnectMsg == "while connecting to pgbouncer database locally"

ResumeMsg == "while resuming instance"

\* The error Pause and Resume return when p.pool.Connection fails.
ConnectError(e) == Wrap(ConnectMsg, e)

\* The error Pause returns when retry.OnError returns the error e.
PauseExecError(e) == e

\* Variant: Resume returns the error of db.Exec as it is.
ResumeExecError_Bare(e) == e

\* The error Resume returns when db.Exec("RESUME") fails.
ResumeExecError(e) == Wrap(ResumeMsg, e)

\* Variant: only os.ErrNotExist is retried.
Retriable_OnlyNotExist(e) == ErrorsIs(e, ErrNotExist)

\* The retriable predicate Pause hands to retry.OnError.
Retriable(e) == IF ErrorsIs(e, ErrNotExist) THEN TRUE ELSE TRUE

VARIABLES
    paused,     \* p.paused
    writer,     \* p.mu: the goroutine holding the exclusive lock, or NoProc
    readers,    \* p.mu: the goroutines holding the shared lock
    proxy,      \* pgbouncer: the last command it accepted ("NONE" at start)
    pc,         \* position of each goroutine
    op,         \* the method each goroutine is running or ran last
    steps,      \* backoff.Steps of the running retry.OnError
    err,        \* the local variable err of Pause / Resume
    db,         \* the local variable db of Pause / Resume: NoDb, or the
                \* number, within the call, of the request that returned it
    lastErr,    \* lastErr of retry.OnError
    ret,        \* the error the last Pause / Resume call returned
    val,        \* the bool the last Paused call returned
    execs,      \* history: db.Exec calls made by the current / last call
    wrote,      \* history: value the current / last call stored in p.paused
    obsErr,     \* history: the error returned by the latest db.Exec
    lastDone,   \* history: last successfully completed mutator
    mixed,      \* history: a Pause call has overlapped a Resume call
    unacked,    \* history: pgbouncer changed state on a command whose
                \*          db.Exec returned an error
    conns,      \* history: p.pool.Connection calls made by the current /
                \*          last call
    lastLock    \* history: the method of the call that took the exclusive
                \*          lock last

vars == <<paused, writer, readers, proxy, pc, op, steps, err, db, lastErr, ret,
          val, execs, wrote, obsErr, lastDone, mixed, unacked, conns, lastLock>>

ghosts == <<execs, wrote, obsErr, lastDone, mixed, unacked, conns, lastLock>>

\* The value of db when no handle has been obtained.
NoDb == 0

\* Positions of Pause / Resume at which the call is doing network work.
NetworkPhase == {"connect", "exec", "backoff"}

\* Positions of Pause / Resume from the p.mu.Lock() call to the return.
LockPhase == {"lock", "write", "unlock"}

InFlight(o) == {p \in Procs : op[p] = o /\ pc[p] # "idle"}

\* The state of the calling goroutines and of the environment before the
\* first call.
InitRest ==
    /\ writer = NoProc
    /\ readers = {}
    /\ proxy = "NONE"
    /\ pc = [p \in Procs |-> "idle"]
    /\ op = [p \in Procs |-> "none"]
    /\ steps = [p \in Procs |-> 0]
    /\ err = [p \in Procs |-> Nil]
    /\ lastErr = [p \in Procs |-> Nil]
    /\ ret = [p \in Procs |-> Nil]
    /\ val = [p \in Procs |-> FALSE]
    /\ execs = [p \in Procs |-> 0]
    /\ wrote = [p \in Procs |-> "none"]
    /\ obsErr = [p \in Procs |-> Nil]
    /\ lastDone = "none"
    /\ mixed = FALSE
    /\ unacked = FALSE
    /\ db = [p \in Procs |-> NoDb]
    /\ conns = [p \in Procs |-> 0]
    /\ lastLock = "none"

\* Variant: the instance is constructed paused.
Init_Paused == paused = TRUE /\ InitRest

\* NewPgBouncerInstance: paused is false, the mutex is free.
Init == paused = FALSE /\ InitRest

\* A goroutine calls method o: the locals of the new call are fresh.
StartCall(p, o) ==
    /\ pc[p] = "idle"
    /\ op' = [op EXCEPT ![p] = o]
    /\ steps' = [steps EXCEPT ![p] = 0]
    /\ err' = [err EXCEPT ![p] = Nil]
    /\ lastErr' = [lastErr EXCEPT ![p] = Nil]
    /\ ret' = [ret EXCEPT ![p] = Nil]
    /\ val' = [val EXCEPT ![p] = FALSE]
    /\ execs' = [execs EXCEPT ![p] = 0]
    /\ wrote' = [wrote EXCEPT ![p] = "none"]
    /\ obsErr' = [obsErr EXCEPT ![p] = Nil]
    /\ mixed' = (mixed \/ (o = "Pause" /\ InFlight("Resume") # {})
                       \/ (o = "Resume" /\ InFlight("Pause") # {}))
    /\ db' = [db EXCEPT ![p] = NoDb]
    /\ conns' = [conns EXCEPT ![p] = 0]
    /\ UNCHANGED <<paused, readers, proxy, lastDone, unacked, lastLock>>

\* p.mu.RLock() can return: no goroutine holds the exclusive lock and none
\* is blocked in p.mu.Lock() (a pending writer bars new readers).
CanRLock == writer = NoProc /\ \A q \in Procs : pc[q] # "lock"

\* p.mu.Lock() can return: the lock is held by nobody.
CanLock == writer = NoProc /\ readers = {}

\* p.mu.Unlock() by p: the goroutines blocked in p.mu.RLock() are let in
\* before the lock goes to the next writer.
Woken(p) == IF writer = p THEN {q \in Procs : pc[q] = "rlock"} ELSE {}

\* Where the goroutines are after p's deferred p.mu.Unlock() and return.
UnlockPc(p) ==
    [q \in Procs |-> IF q = p THEN "idle"
                     ELSE IF q \in Woken(p) THEN "read"
                     ELSE pc[q]]

\* Variant: Pause takes the exclusive lock on entry and keeps it.
StartPause_Locked(p) ==
    /\ StartCall(p, "Pause")
    /\ CanLock
    /\ writer' = p
    /\ pc' = [pc EXCEPT ![p] = "connect"]

\* Variant: Pause returns at once when the flag is already true.
StartPause_SkipIfPaused(p) ==
    /\ StartCall(p, "Pause")
    /\ pc' = [pc EXCEPT ![p] = IF paused THEN "idle" ELSE "connect"]
    /\ UNCHANGED writer

\* Pause, line 64: the call is made
StartPause(p) ==
    /\ StartCall(p, "Pause")
    /\ pc' = [pc EXCEPT ![p] = "connect"]
    /\ UNCHANGED writer

\* Resume, line 98: the call is made
StartResume(p) ==
    /\ StartCall(p, "Resume")
    /\ pc' = [pc EXCEPT ![p] = "connect"]
    /\ UNCHANGED writer

\* Paused, line 57: the call is made
StartPaused(p) ==
    /\ StartCall(p, "Paused")
    /\ pc' = [pc EXCEPT ![p] = "rlock"]
    /\ UNCHANGED writer

\* Variant: Paused reads the flag without taking the lock.
PausedRLock_NoLock(p) ==
    /\ pc[p] = "rlock"
    /\ pc' = [pc EXCEPT ![p] = "read"]
    /\ UNCHANGED <<paused, writer, readers, proxy, op, steps, err, lastErr,
                   ret, val, db>>
    /\ UNCHANGED ghosts

\* Paused, line 58: p.mu.RLock()
PausedRLock(p) ==
    /\ pc[p] = "rlock"
    /\ CanRLock
    /\ readers' = readers \cup {p}
    /\ pc' = [pc EXCEPT ![p] = "read"]
    /\ UNCHANGED <<paused, writer, proxy, op, steps, err, lastErr, ret, val,
                   db>>
    /\ UNCHANGED ghosts

\* Variant: Paused returns the opposite of the flag.
PausedRead_Negated(p) ==
    /\ pc[p] = "read"
    /\ val' = [val EXCEPT ![p] = ~paused]
    /\ pc' = [pc EXCEPT ![p] = "runlock"]
    /\ UNCHANGED <<paused, writer, readers, proxy, op, steps, err, lastErr,
                   ret, db>>
    /\ UNCHANGED ghosts

\* Paused, line 60: the return value p.paused is evaluated
PausedRead(p) ==
    /\ pc[p] = "read"
    /\ val' = [val EXCEPT ![p] = paused]
    /\ pc' = [pc EXCEPT ![p] = "runlock"]
    /\ UNCHANGED <<paused, writer, readers, proxy, op, steps, err, lastErr,
                   ret, db>>
    /\ UNCHANGED ghosts

\* Paused, line 59: the deferred p.mu.RUnlock() runs and the call returns
PausedReturn(p) ==
    /\ pc[p] = "runlock"
    /\ readers' = readers \ {p}
    /\ pc' = [pc EXCEPT ![p] = "idle"]
    /\ UNCHANGED <<paused, writer, proxy, op, steps, err, lastErr, ret, val,
                   db>>
    /\ UNCHANGED ghosts

\* Variant: retry.OnError keeps the first error it saw.
NextLastErr_First(old, e) == IF old = Nil THEN e ELSE old

\* retry.OnError: lastErr after the retriable error e
NextLastErr(old, e) == e

\* wait.ExponentialBackoff: the attempt made with s steps left is the last
LastAttempt(s) == s = 1

\* Variant: the step counter is not decremented.
NextSteps_Same(s) == s

\* wait.Backoff.Step: the steps left after one more step
NextSteps(s) == s - 1

\* Variant: the connection error is not checked.
ConnectFailed_Never(e) == FALSE

\* Pause, line 67 and Resume, line 101: if err != nil
ConnectFailed(e) == e # Nil

\* Variant: the result of retry.OnError is not checked.
PauseFailed_Never(e) == FALSE

\* Pause, line 85: if err != nil
PauseFailed(e) == e # Nil

\* Variant: the result of db.Exec("RESUME") is not checked.
ResumeFailed_Never(e) == FALSE

\* Resume, line 107: if err != nil
ResumeFailed(e) == e # Nil

\* db.Exec(cmd) returns e: pgbouncer accepts the command when e is nil; when
\* e is an error pgbouncer has refused the command or never seen it
\* (applied = FALSE) or has run it although the caller got an error
\* (applied = TRUE).
ExecEffect(cmd, e, applied) ==
    /\ proxy' = IF e = Nil \/ applied THEN cmd ELSE proxy
    /\ unacked' = (unacked \/ (e # Nil /\ proxy' # proxy))

\* Variant: Pause asks the pool again when the connection fails.
PauseConnect_Retry(p) ==
    /\ pc[p] = "connect"
    /\ op[p] = "Pause"
    /\ conns' = [conns EXCEPT ![p] = @ + 1]
    /\ \E e \in ConnErrs \cup {Nil} :
        /\ err' = [err EXCEPT ![p] = e]
        /\ db' = [db EXCEPT ![p] = IF e = Nil THEN conns'[p] ELSE NoDb]
        /\ IF ConnectFailed(e)
           THEN UNCHANGED <<ret, pc, steps>>
           ELSE /\ steps' = [steps EXCEPT ![p] = BackoffSteps]
                /\ pc' = [pc EXCEPT ![p] = "exec"]
                /\ UNCHANGED ret
    /\ UNCHANGED <<paused, writer, readers, proxy, op, lastErr, val>>
    /\ UNCHANGED <<execs, wrote, obsErr, lastDone, mixed, unacked, lastLock>>

\* Pause, lines 66-69: p.pool.Connection("pgbouncer")
PauseConnect(p) ==
    /\ pc[p] = "connect"
    /\ op[p] = "Pause"
    /\ conns' = [conns EXCEPT ![p] = @ + 1]
    /\ \E e \in ConnErrs \cup {Nil} :
        /\ err' = [err EXCEPT ![p] = e]
        /\ db' = [db EXCEPT ![p] = IF e = Nil THEN conns'[p] ELSE NoDb]
        /\ IF ConnectFailed(e)
           THEN /\ ret' = [ret EXCEPT ![p] = ConnectError(e)]
                /\ pc' = [pc EXCEPT ![p] = "idle"]
                /\ UNCHANGED steps
           ELSE /\ steps' = [steps EXCEPT ![p] = BackoffSteps]
                /\ pc' = [pc EXCEPT ![p] = "exec"]
                /\ UNCHANGED ret
    /\ UNCHANGED <<paused, writer, readers, proxy, op, lastErr, val>>
    /\ UNCHANGED <<execs, wrote, obsErr, lastDone, mixed, unacked, lastLock>>

\* Pause, lines 76 and 85-87: retry.OnError has returned r (its lastErr is
\* gone) and Pause checks r
PauseAfterRetry(p, r) ==
    /\ lastErr' = [lastErr EXCEPT ![p] = Nil]
    /\ err' = [err EXCEPT ![p] = r]
    /\ IF PauseFailed(r)
       THEN /\ ret' = [ret EXCEPT ![p] = PauseExecError(r)]
            /\ pc' = [pc EXCEPT ![p] = "idle"]
       ELSE /\ pc' = [pc EXCEPT ![p] = "lock"]
            /\ UNCHANGED ret

\* Pause, lines 76-87: one attempt of retry.OnError, that is one run of
\* db.Exec("PAUSE"), and what OnError and Pause do with its result.
PauseExec(p) ==
    /\ pc[p] = "exec"
    /\ op[p] = "Pause"
    /\ steps[p] > 0
    /\ db[p] # NoDb
    /\ execs' = [execs EXCEPT ![p] = @ + 1]
    /\ \E e \in ExecErrs \cup {Nil}, applied \in BOOLEAN :
        /\ e = Nil => applied
        /\ ExecEffect("PAUSE", e, applied)
        /\ obsErr' = [obsErr EXCEPT ![p] = e]
        /\ IF e = Nil
           THEN \* OnError returns nil
                PauseAfterRetry(p, Nil)
           ELSE IF Retriable(e)
           THEN IF LastAttempt(steps[p])
                THEN \* ErrWaitTimeout: OnError returns lastErr
                     PauseAfterRetry(p, NextLastErr(lastErr[p], e))
                ELSE /\ lastErr' = [lastErr EXCEPT ![p] = NextLastErr(@, e)]
                     /\ err' = [err EXCEPT ![p] = e]
                     /\ pc' = [pc EXCEPT ![p] = "backoff"]
                     /\ UNCHANGED ret
           ELSE \* not retriable: OnError returns e at once
                PauseAfterRetry(p, e)
    /\ UNCHANGED <<paused, writer, readers, op, steps, val, db>>
    /\ UNCHANGED <<wrote, lastDone, mixed, conns, lastLock>>

\* Pause, line 76: time.Sleep(backoff.Step()) between two attempts
PauseBackoff(p) ==
    /\ pc[p] = "backoff"
    /\ op[p] = "Pause"
    /\ steps' = [steps EXCEPT ![p] = NextSteps(@)]
    /\ pc' = [pc EXCEPT ![p] = "exec"]
    /\ UNCHANGED <<paused, writer, readers, proxy, op, err, lastErr, ret,
                   val, db>>
    /\ UNCHANGED ghosts

\* Variant: Pause stores the flag without taking the lock.
PauseLock_NoLock(p) ==
    /\ pc[p] = "lock"
    /\ op[p] = "Pause"
    /\ pc' = [pc EXCEPT ![p] = "write"]
    /\ UNCHANGED <<paused, writer, readers, proxy, op, steps, err, lastErr,
                   ret, val, db>>
    /\ UNCHANGED ghosts

\* Pause, line 90: p.mu.Lock()
PauseLock(p) ==
    /\ pc[p] = "lock"
    /\ op[p] = "Pause"
    /\ CanLock
    /\ writer' = p
    /\ lastLock' = "Pause"
    /\ pc' = [pc EXCEPT ![p] = "write"]
    /\ UNCHANGED <<paused, readers, proxy, op, steps, err, lastErr, ret, val,
                   db>>
    /\ UNCHANGED <<execs, wrote, obsErr, lastDone, mixed, unacked, conns>>

\* Pause, line 92: p.paused = true
PauseWrite(p) ==
    /\ pc[p] = "write"
    /\ op[p] = "Pause"
    /\ paused' = TRUE
    /\ wrote' = [wrote EXCEPT ![p] = "true"]
    /\ pc' = [pc EXCEPT ![p] = "unlock"]
    /\ UNCHANGED <<writer, readers, proxy, op, steps, err, lastErr, ret, val,
                   db>>
    /\ UNCHANGED <<execs, obsErr, lastDone, mixed, unacked, conns, lastLock>>

\* Variant: Pause returns without releasing the lock.
PauseReturn_NoUnlock(p) ==
    /\ pc[p] = "unlock"
    /\ op[p] = "Pause"
    /\ ret' = [ret EXCEPT ![p] = Nil]
    /\ pc' = [pc EXCEPT ![p] = "idle"]
    /\ lastDone' = "Pause"
    /\ UNCHANGED <<paused, writer, readers, proxy, op, steps, err, lastErr, val,
                   db>>
    /\ UNCHANGED <<execs, wrote, obsErr, mixed, unacked, conns, lastLock>>

\* Pause, lines 91 and 94: return nil, the deferred p.mu.Unlock() runs
PauseReturn(p) ==
    /\ pc[p] = "unlock"
    /\ op[p] = "Pause"
    /\ writer' = IF writer = p THEN NoProc ELSE writer
    /\ readers' = readers \cup Woken(p)
    /\ ret' = [ret EXCEPT ![p] = Nil]
    /\ pc' = UnlockPc(p)
    /\ lastDone' = "Pause"
    /\ UNCHANGED <<paused, proxy, op, steps, err, lastErr, val, db>>
    /\ UNCHANGED <<execs, wrote, obsErr, mixed, unacked, conns, lastLock>>

\* Resume, lines 100-103: p.pool.Connection("pgbouncer")
ResumeConnect(p) ==
    /\ pc[p] = "connect"
    /\ op[p] = "Resume"
    /\ conns' = [conns EXCEPT ![p] = @ + 1]
    /\ \E e \in ConnErrs \cup {Nil} :
        /\ err' = [err EXCEPT ![p] = e]
        /\ db' = [db EXCEPT ![p] = IF e = Nil THEN conns'[p] ELSE NoDb]
        /\ IF ConnectFailed(e)
           THEN /\ ret' = [ret EXCEPT ![p] = ConnectError(e)]
                /\ pc' = [pc EXCEPT ![p] = "idle"]
           ELSE /\ pc' = [pc EXCEPT ![p] = "exec"]
                /\ UNCHANGED ret
    /\ UNCHANGED <<paused, writer, readers, proxy, op, steps, lastErr, val>>
    /\ UNCHANGED <<execs, wrote, obsErr, lastDone, mixed, unacked, lastLock>>

\* Resume, lines 106-109: db.Exec("RESUME"), once
ResumeExec(p) ==
    /\ pc[p] = "exec"
    /\ op[p] = "Resume"
    /\ db[p] # NoDb
    /\ execs' = [execs EXCEPT ![p] = @ + 1]
    /\ \E e \in ExecErrs \cup {Nil}, applied \in BOOLEAN :
        /\ e = Nil => applied
        /\ ExecEffect("RESUME", e, applied)
        /\ obsErr' = [obsErr EXCEPT ![p] = e]
        /\ err' = [err EXCEPT ![p] = e]
        /\ IF ResumeFailed(e)
           THEN /\ ret' = [ret EXCEPT ![p] = ResumeExecError(e)]
                /\ pc' = [pc EXCEPT ![p] = "idle"]
           ELSE /\ pc' = [pc EXCEPT ![p] = "lock"]
                /\ UNCHANGED ret
    /\ UNCHANGED <<paused, writer, readers, op, steps, lastErr, val, db>>
    /\ UNCHANGED <<wrote, lastDone, mixed, conns, lastLock>>

\* Variant: Resume stores the flag without taking the lock.
ResumeLock_NoLock(p) ==
    /\ pc[p] = "lock"
    /\ op[p] = "Resume"
    /\ pc' = [pc EXCEPT ![p] = "write"]
    /\ UNCHANGED <<paused, writer, readers, proxy, op, steps, err, lastErr,
                   ret, val, db>>
    /\ UNCHANGED ghosts

\* Resume, line 112: p.mu.Lock()
ResumeLock(p) ==
    /\ pc[p] = "lock"
    /\ op[p] = "Resume"
    /\ CanLock
    /\ writer' = p
    /\ lastLock' = "Resume"
    /\ pc' = [pc EXCEPT ![p] = "write"]
    /\ UNCHANGED <<paused, readers, proxy, op, steps, err, lastErr, ret, val,
                   db>>
    /\ UNCHANGED <<execs, wrote, obsErr, lastDone, mixed, unacked, conns>>

\* Resume, line 114: p.paused = false
ResumeWrite(p) ==
    /\ pc[p] = "write"
    /\ op[p] = "Resume"
    /\ paused' = FALSE
    /\ wrote' = [wrote EXCEPT ![p] = "false"]
    /\ pc' = [pc EXCEPT ![p] = "unlock"]
    /\ UNCHANGED <<writer, readers, proxy, op, steps, err, lastErr, ret, val,
                   db>>
    /\ UNCHANGED <<execs, obsErr, lastDone, mixed, unacked, conns, lastLock>>

\* Resume, lines 113 and 116: return nil, the deferred p.mu.Unlock() runs
ResumeReturn(p) ==
    /\ pc[p] = "unlock"
    /\ op[p] = "Resume"
    /\ writer' = IF writer = p THEN NoProc ELSE writer
    /\ readers' = readers \cup Woken(p)
    /\ ret' = [ret EXCEPT ![p] = Nil]
    /\ pc' = UnlockPc(p)
    /\ lastDone' = "Resume"
    /\ UNCHANGED <<paused, proxy, op, steps, err, lastErr, val, db>>
    /\ UNCHANGED <<execs, wrote, obsErr, mixed, unacked, conns, lastLock>>

Next ==
    \E p \in Procs :
        \/ StartPaused(p)
        \/ PausedRLock(p)
        \/ PausedRead(p)
        \/ PausedReturn(p)
        \/ StartPause(p)
        \/ PauseConnect(p)
        \/ PauseExec(p)
        \/ PauseBackoff(p)
        \/ PauseLock(p)
        \/ PauseWrite(p)
        \/ PauseReturn(p)
        \/ StartResume(p)
        \/ ResumeConnect(p)
        \/ ResumeExec(p)
        \/ ResumeLock(p)
        \/ ResumeWrite(p)
        \/ ResumeReturn(p)

Spec == Init /\ [][Next]_vars

\* No call is running on any goroutine.
AllIdle == \A q \in Procs : pc[q] = "idle"

\* The instance used by callers that never overlap their calls: a call is
\* made only when every earlier call has returned.
SeqNext ==
    \E p \in Procs :
        \/ AllIdle /\ StartPaused(p)
        \/ PausedRLock(p)
        \/ PausedRead(p)
        \/ PausedReturn(p)
        \/ AllIdle /\ StartPause(p)
        \/ PauseConnect(p)
        \/ PauseExec(p)
        \/ PauseBackoff(p)
        \/ PauseLock(p)
        \/ PauseWrite(p)
        \/ PauseReturn(p)
        \/ AllIdle /\ StartResume(p)
        \/ ResumeConnect(p)
        \/ ResumeExec(p)
        \/ ResumeLock(p)
        \/ ResumeWrite(p)
        \/ ResumeReturn(p)

SeqSpec == Init /\ [][SeqNext]_vars

\* A step of the call goroutine p is running, other than taking the lock:
\* no such step waits for another goroutine.
Progress(p) ==
    \/ PausedRead(p) \/ PausedReturn(p)
    \/ PauseConnect(p) \/ PauseExec(p) \/ PauseBackoff(p)
    \/ PauseWrite(p) \/ PauseReturn(p)
    \/ ResumeConnect(p) \/ ResumeExec(p)
    \/ ResumeWrite(p) \/ ResumeReturn(p)

\* Taking p.mu, shared or exclusive.
Acquire(p) == PausedRLock(p) \/ PauseLock(p) \/ ResumeLock(p)

\* The Go scheduler runs every runnable goroutine, the connection pool and
\* pgbouncer always answer, and sync.RWMutex hands the lock to a goroutine
\* that keeps waiting for it (its starvation mode for writers, the release
\* of the blocked readers by Unlock).  Nothing forces a
\* goroutine to make a new call.
FairSpec ==
    /\ Spec
    /\ \A p \in Procs : WF_vars(Progress(p)) /\ SF_vars(Acquire(p))

\* Types of the variables.
TypeOK ==
    /\ paused \in BOOLEAN
    /\ writer \in Procs \cup {NoProc}
    /\ readers \subseteq Procs
    /\ proxy \in {"NONE", "PAUSE", "RESUME"}
    /\ \A p \in Procs :
        /\ pc[p] \in {"idle", "connect", "exec", "backoff", "lock", "write",
                      "unlock", "rlock", "read", "runlock"}
        /\ op[p] \in {"none", "Pause", "Resume", "Paused"}
        /\ steps[p] \in 0..BackoffSteps
        /\ val[p] \in BOOLEAN
        /\ execs[p] \in Nat
        /\ wrote[p] \in {"none", "true", "false"}
        /\ db[p] \in {NoDb, 1}
        /\ conns[p] \in Nat
    /\ lastDone \in {"none", "Pause", "Resume"}
    /\ lastLock \in {"none", "Pause", "Resume"}
    /\ mixed \in BOOLEAN
    /\ unacked \in BOOLEAN

\* A Paused call that has evaluated its return value and still holds the
\* shared lock: no Pause or Resume call has completed since it read the flag.
HasRead(p) == op[p] = "Paused" /\ pc[p] = "runlock"

\* A Pause or Resume call that has returned.
Returned(p) == op[p] \in {"Pause", "Resume"} /\ pc[p] = "idle"

\* No Pause or Resume call is in flight.
Quiescent == InFlight("Pause") = {} /\ InFlight("Resume") = {}

\* C1: a Paused call that evaluates its return value while the last
\* Pause or Resume call to have completed successfully is a Pause returns
\* true.  The calls the claim is about are among these: a call invoked
\* after a Pause has completed and returning before any Resume completes.
C1_PausedTrueAfterPause ==
    \A p \in Procs : (HasRead(p) /\ lastDone = "Pause") => val[p] = TRUE

\* C1 witness: a Paused call is returning true after a successful Pause
\* while a Resume call that has already run RESUME waits for the lock.
C1_Witness ==
    \E p, q \in Procs :
        /\ HasRead(p) /\ lastDone = "Pause" /\ val[p]
        /\ op[q] = "Resume" /\ pc[q] = "lock" /\ proxy = "RESUME"

\* C2: a Paused call that evaluates its return value while the last
\* Pause or Resume call to have completed successfully is a Resume returns
\* false.  The calls the claim is about are among these: a call invoked
\* after a Resume has completed and returning before any Pause completes.
C2_PausedFalseAfterResume ==
    \A p \in Procs : (HasRead(p) /\ lastDone = "Resume") => val[p] = FALSE

\* C2 witness: a Paused call is returning false after a successful Resume
\* while a Pause call that has already run PAUSE waits for the lock.
C2_Witness ==
    \E p, q \in Procs :
        /\ HasRead(p) /\ lastDone = "Resume" /\ ~val[p]
        /\ op[q] = "Pause" /\ pc[q] = "lock" /\ proxy = "PAUSE"

\* C3 as stated: whenever no Pause or Resume call is in flight, the flag is
\* true exactly when the last command pgbouncer accepted was PAUSE, for
\* every interleaving of concurrent Pause and Resume calls ("accepted" read
\* in the claim's favour: only executions in which every command that
\* changed pgbouncer's state returned success are considered).
C3_NoDriftAnyInterleaving ==
    (Quiescent /\ ~unacked) => (paused <=> proxy = "PAUSE")

\* C3 amended: whenever no Pause or Resume call is in flight, the flag is
\* true exactly when the last command pgbouncer accepted was PAUSE, as long
\* as no Pause call has overlapped a Resume call (and every command that
\* changed pgbouncer's state returned success).
C3_NoDriftWithoutOverlap ==
    (Quiescent /\ ~mixed /\ ~unacked) => (paused <=> proxy = "PAUSE")

\* C3 witness: two goroutines have completed a Pause and a Resume call that
\* did not overlap, both successfully, and no call is in flight.
C3_Witness ==
    \E p, q \in Procs :
        /\ Quiescent /\ ~mixed /\ ~unacked
        /\ Returned(p) /\ op[p] = "Pause" /\ wrote[p] = "true"
        /\ Returned(q) /\ op[q] = "Resume" /\ wrote[q] = "false"
        /\ paused /\ proxy = "PAUSE"

\* C4: every step that changes the flag is the store of a Pause call whose
\* latest PAUSE returned success (to true) or of a Resume call whose RESUME
\* returned success (to false); and a step in which a call returns an error
\* leaves the flag alone, that call having never stored the flag.
C4_FlagStep ==
    /\ paused' # paused =>
         \E p \in Procs :
            /\ pc[p] = "write" /\ pc'[p] = "unlock"
            /\ execs[p] >= 1 /\ obsErr[p] = Nil /\ err[p] = Nil
            /\ \/ op[p] = "Pause" /\ paused' = TRUE
               \/ op[p] = "Resume" /\ paused' = FALSE
    /\ \A p \in Procs :
         (op[p] \in {"Pause", "Resume"} /\ pc[p] # "idle"
            /\ pc'[p] = "idle" /\ ret'[p] # Nil)
         => (paused' = paused /\ wrote'[p] = "none")

C4_MutatedOnlyOnSuccess == [][C4_FlagStep]_vars

\* C4 witness: the flag is true, stored by a Pause call that is about to
\* return, and another call has returned an error.
C4_Witness ==
    \E p, q \in Procs :
        /\ op[p] = "Pause" /\ pc[p] = "unlock" /\ wrote[p] = "true" /\ paused
        /\ Returned(q) /\ ret[q] # Nil

\* C5: a Pause or Resume call whose connection request failed has returned
\* an error, has run no command and has not stored the flag.
C5_ConnectFailure ==
    \A p \in Procs :
        (op[p] \in {"Pause", "Resume"} /\ err[p] \in ConnErrs)
        => /\ pc[p] = "idle"
           /\ ret[p] # Nil
           /\ execs[p] = 0
           /\ wrote[p] = "none"

\* C5 witness: a Pause call and a Resume call have both returned after a
\* failed connection request, the flag being true.
C5_Witness ==
    \E p, q \in Procs :
        /\ Returned(p) /\ op[p] = "Pause" /\ err[p] \in ConnErrs
        /\ Returned(q) /\ op[q] = "Resume" /\ err[q] \in ConnErrs
        /\ paused

\* A Pause call that has returned after its last db.Exec failed.
PauseExhausted(p) == Returned(p) /\ op[p] = "Pause" /\ obsErr[p] # Nil

\* C6: a Pause call never runs PAUSE more than BackoffSteps times; a call
\* whose PAUSE has succeeded (after fewer than BackoffSteps failures) holds
\* no error, and eventually returns nil having stored true in the flag.
C6_PauseSucceedsAfterRetries ==
    /\ [](\A p \in Procs :
            /\ op[p] = "Pause" => execs[p] <= BackoffSteps
            /\ (op[p] = "Pause" /\ pc[p] \in LockPhase)
                 => (execs[p] \in 1..BackoffSteps /\ obsErr[p] = Nil))
    /\ \A p \in Procs :
         (op[p] = "Pause" /\ pc[p] = "lock")
         ~> (Returned(p) /\ op[p] = "Pause" /\ ret[p] = Nil
               /\ wrote[p] = "true" /\ execs[p] \in 1..BackoffSteps)

\* C6 witness: a Pause call has returned nil and stored true after PAUSE
\* failed BackoffSteps - 1 times and then succeeded.
C6_Witness ==
    \E p \in Procs :
        /\ Returned(p) /\ op[p] = "Pause" /\ ret[p] = Nil
        /\ wrote[p] = "true" /\ execs[p] = BackoffSteps

\* C7: a Pause call that returns after a failed PAUSE has run PAUSE exactly
\* BackoffSteps times, returns the error of the last run and has not stored
\* the flag.
C7_PauseExhausted ==
    \A p \in Procs :
        PauseExhausted(p)
        => /\ execs[p] = BackoffSteps
           /\ ret[p] = obsErr[p]
           /\ wrote[p] = "none"

\* C7 witness: a Pause call has given up, the error of its last attempt
\* being os.ErrNotExist, while the flag is true.
C7_Witness ==
    \E p \in Procs :
        /\ PauseExhausted(p) /\ obsErr[p] = ErrNotExist
        /\ execs[p] = BackoffSteps /\ paused

\* C8: a Resume call runs RESUME at most once, and once RESUME has failed
\* the call has returned an error without storing the flag.
C8_ResumeNeverRetries ==
    \A p \in Procs :
        op[p] = "Resume"
        => /\ execs[p] <= 1
           /\ obsErr[p] # Nil
                => (pc[p] = "idle" /\ ret[p] # Nil /\ wrote[p] = "none"
                      /\ execs[p] = 1)

\* C8 witness: a Resume call has returned an error after one failed RESUME,
\* the flag being true.
C8_Witness ==
    \E p \in Procs :
        /\ Returned(p) /\ op[p] = "Resume" /\ obsErr[p] # Nil
        /\ execs[p] = 1 /\ paused

\* A step of the network phase of the call goroutine p is running.
NetworkStep(p) ==
    \/ PauseConnect(p) \/ PauseExec(p) \/ PauseBackoff(p)
    \/ ResumeConnect(p) \/ ResumeExec(p)

\* C9: a call in its network phase holds the lock in neither mode and can
\* always take its next step; the exclusive lock is held only around the
\* store of the flag; and when calls are in their network phase and none is
\* in its lock phase, a Paused call can take the shared lock at once.
C9_NoLockInNetworkPhase ==
    /\ \A p \in Procs :
         pc[p] \in NetworkPhase
         => (writer # p /\ p \notin readers /\ ENABLED NetworkStep(p))
    /\ \A p \in Procs : writer = p => pc[p] \in {"write", "unlock"}
    /\ ((\E p \in Procs : pc[p] \in NetworkPhase)
          /\ (\A q \in Procs : pc[q] \notin LockPhase))
       => \A r \in Procs : pc[r] = "rlock" => ENABLED PausedRLock(r)

\* C9 witness: a Pause call is between two attempts while another
\* goroutine holds the shared lock inside Paused.
C9_Witness ==
    \E p, q \in Procs :
        /\ op[p] = "Pause" /\ pc[p] = "backoff"
        /\ op[q] = "Paused" /\ pc[q] = "read" /\ q \in readers

\* An error that wraps e under a message of the execute phase.
ExecuteWrapped(r, e) ==
    /\ Len(r) > Len(e)
    /\ SubSeq(r, Len(r) - Len(e) + 1, Len(r)) = e
    /\ r[1] # ConnectMsg

\* C10 as stated: a call whose connection request failed returns that error
\* wrapped under the connect message, a call whose command failed returns
\* that error wrapped under an execute message, for Pause and for Resume.
C10_AllErrorsWrapped ==
    \A p \in Procs :
        Returned(p)
        => /\ err[p] \in ConnErrs => ret[p] = Wrap(ConnectMsg, err[p])
           /\ obsErr[p] # Nil => ExecuteWrapped(ret[p], obsErr[p])

\* C10 amended: a call whose connection request failed returns that error
\* wrapped under the connect message; a Resume call whose command failed
\* returns that error wrapped under the resume message; a Pause call whose
\* command failed on the last attempt returns that error as it is, without
\* a wrapper; no failed call returns nil.
C10_ErrorsPropagated ==
    \A p \in Procs :
        Returned(p)
        => /\ err[p] \in ConnErrs => ret[p] = Wrap(ConnectMsg, err[p])
           /\ (op[p] = "Resume" /\ obsErr[p] # Nil)
                => (ret[p] = Wrap(ResumeMsg, obsErr[p])
                      /\ ExecuteWrapped(ret[p], obsErr[p]))
           /\ (op[p] = "Pause" /\ obsErr[p] # Nil) => ret[p] = obsErr[p]
           /\ (err[p] # Nil) => ret[p] # Nil

\* C10 witness: a Pause call has returned the bare error of its last
\* attempt and a Resume call has returned a wrapped execution error.
C10_Witness ==
    \E p, q \in Procs :
        /\ PauseExhausted(p) /\ ret[p] \in ExecErrs
        /\ Returned(q) /\ op[q] = "Resume" /\ obsErr[q] # Nil
        /\ ret[q] = Wrap(ResumeMsg, obsErr[q])

\* A Pause or Resume call that has returned after its last db.Exec
\* succeeded.
CommandSucceeded(p) == Returned(p) /\ execs[p] >= 1 /\ obsErr[p] = Nil

\* C11: a Pause call and a Resume call whose commands both succeeded have
\* both returned nil, each having stored its value; once no Pause or Resume
\* call is in flight the flag is the value of the call that took the
\* exclusive lock last, whatever command pgbouncer ran last.
C11_LastLockWins ==
    \A p, q \in Procs :
        (CommandSucceeded(p) /\ op[p] = "Pause"
           /\ CommandSucceeded(q) /\ op[q] = "Resume")
        => /\ ret[p] = Nil /\ wrote[p] = "true"
           /\ ret[q] = Nil /\ wrote[q] = "false"
           /\ Quiescent => (paused <=> lastLock = "Pause")

\* C11 witness: a Pause and a Resume call that overlapped have both
\* returned nil; pgbouncer ran RESUME last but Pause took the lock last, and
\* the flag is true.
C11_Witness ==
    \E p, q \in Procs :
        /\ CommandSucceeded(p) /\ op[p] = "Pause" /\ ret[p] = Nil
        /\ CommandSucceeded(q) /\ op[q] = "Resume" /\ ret[q] = Nil
        /\ Quiescent /\ mixed /\ ~unacked
        /\ lastLock = "Pause" /\ proxy = "RESUME" /\ paused

\* The ways a call ends: Pause in success, exhausted retries or connection
\* failure, Resume in success or one failure, Paused with the flag's value.
Outcome(p) ==
    /\ op[p] = "Pause" =>
         \/ ret[p] = Nil /\ wrote[p] = "true" /\ execs[p] \in 1..BackoffSteps
         \/ ret[p] # Nil /\ obsErr[p] # Nil /\ execs[p] = BackoffSteps
         \/ ret[p] # Nil /\ err[p] \in ConnErrs /\ execs[p] = 0
    /\ op[p] = "Resume" =>
         \/ ret[p] = Nil /\ wrote[p] = "false" /\ execs[p] = 1
         \/ ret[p] # Nil /\ obsErr[p] # Nil /\ execs[p] = 1
         \/ ret[p] # Nil /\ err[p] \in ConnErrs /\ execs[p] = 0

\* C12: every call that has been made eventually returns; a call that has
\* returned holds the lock in neither mode and has ended in one of the
\* outcomes above.
C12_CallsReturn ==
    /\ \A p \in Procs : (pc[p] # "idle") ~> (pc[p] = "idle")
    /\ [](\A p \in Procs :
            pc[p] = "idle" => (writer # p /\ p \notin readers /\ Outcome(p)))

\* C12 witness: a Pause call has given up after BackoffSteps attempts and a
\* Resume call has returned nil, and the lock is free.
C12_Witness ==
    \E p, q \in Procs :
        /\ PauseExhausted(p) /\ execs[p] = BackoffSteps
        /\ CommandSucceeded(q) /\ op[q] = "Resume" /\ ret[q] = Nil
        /\ writer = NoProc /\ readers = {}

\* C13: as long as no Pause or Resume call has completed successfully the
\* flag is false (but for a Pause call that has stored it and is about to
\* return), and a Paused call that evaluates its return value before any
\* Pause call has completed successfully - the last successful call, if
\* any, being a Resume - returns false.
C13_InitiallyActive ==
    /\ (lastDone = "none"
          /\ \A p \in Procs : ~(op[p] = "Pause" /\ pc[p] = "unlock"))
       => paused = FALSE
    /\ \A p \in Procs : (HasRead(p) /\ lastDone # "Pause") => val[p] = FALSE

\* C13 witness: no call has completed successfully, a Pause call has given
\* up, and a Paused call made after it is returning false.
C13_Witness ==
    \E p, q \in Procs :
        /\ lastDone = "none" /\ lastLock = "none"
        /\ PauseExhausted(p)
        /\ HasRead(q) /\ val[q] = FALSE

\* C14: the retry predicate accepts every execution error, os.ErrNotExist
\* or not; so after a failed attempt that is not the last one Pause has not
\* returned: it is backing off or running the next attempt.
C14_RetriesEveryError ==
    /\ \A e \in ExecErrs : Retriable(e)
    /\ \A p \in Procs :
         (op[p] = "Pause" /\ obsErr[p] # Nil /\ execs[p] < BackoffSteps)
         => pc[p] \in {"backoff", "exec"}

\* C14 witness: one Pause call is backing off after os.ErrNotExist and
\* another after an error that is not os.ErrNotExist.
C14_Witness ==
    \E p, q \in Procs :
        /\ op[p] = "Pause" /\ pc[p] = "backoff"
        /\ ErrorsIs(obsErr[p], ErrNotExist)
        /\ op[q] = "Pause" /\ pc[q] = "backoff"
        /\ obsErr[q] # Nil /\ ~ErrorsIs(obsErr[q], ErrNotExist)

\* C15: a Pause or Resume call asks the pool for a connection once, before
\* any execution: a call that has not asked yet holds no handle and has
\* executed nothing, every attempt runs on the handle of the call's one
\* request, and a call whose request failed has returned an error without
\* asking again or executing.
C15_OneConnectionPerCall ==
    \A p \in Procs :
        op[p] \in {"Pause", "Resume"} =>
            /\ conns[p] <= 1
            /\ pc[p] = "connect"
                 => (conns[p] = 0 /\ db[p] = NoDb /\ execs[p] = 0)
            /\ pc[p] # "connect" => conns[p] = 1
            /\ pc[p] \in {"exec", "backoff"} => db[p] = 1
            /\ execs[p] >= 1 => db[p] = 1
            /\ (pc[p] # "connect" /\ db[p] = NoDb)
                 => (pc[p] = "idle" /\ ret[p] # Nil /\ execs[p] = 0)

\* C15 witness: a Pause call is about to run its last attempt on the handle
\* of its one request, after a Resume call of the same instance has failed
\* to connect.
C15_Witness ==
    \E p, q \in Procs :
        /\ op[p] = "Pause" /\ pc[p] = "exec"
        /\ execs[p] = BackoffSteps - 1 /\ conns[p] = 1 /\ db[p] = 1
        /\ Returned(q) /\ op[q] = "Resume"
        /\ db[q] = NoDb /\ conns[q] = 1 /\ ret[q] # Nil

\* A step of a Paused call leaves the flag and pgbouncer alone, asks for no
\* connection and executes nothing, and the value it picks up is the flag.
C16_PausedStep ==
    \A p \in Procs :
        (op'[p] = "Paused" /\ pc'[p] # pc[p]) =>
            /\ paused' = paused
            /\ proxy' = proxy
            /\ conns'[p] = 0 /\ execs'[p] = 0 /\ db'[p] = NoDb
            /\ pc[p] = "read" => val'[p] = paused
            /\ pc[p] = "runlock" => val'[p] = val[p]

\* C16: Paused only reads: no step of a Paused call changes the flag,
\* commands pgbouncer or asks for a connection, the value returned is the
\* flag as read under the shared lock, and every Paused call returns.
C16_PausedPureRead ==
    /\ [][C16_PausedStep]_vars
    /\ \A p \in Procs :
         (op[p] = "Paused" /\ pc[p] # "idle")
         ~> (op[p] = "Paused" /\ pc[p] = "idle")

\* C16 witness: a Paused call has read true and is returning, the flag is
\* still true, while another goroutine waits for the exclusive lock.
C16_Witness ==
    \E p, q \in Procs :
        /\ HasRead(p) /\ val[p] = TRUE /\ paused
        /\ conns[p] = 0 /\ execs[p] = 0
        /\ pc[q] = "lock"

\* C17: with calls that never overlap and commands that fail without
\* effect, whenever no call is running the flag says whether pgbouncer is
\* paused, and it is true exactly when the last Pause or Resume call that
\* returned nil was a Pause (false when there was none).
C17_SequentialFlagIsProxyState ==
    (AllIdle /\ ~unacked)
    => /\ paused <=> proxy = "PAUSE"
       /\ paused <=> lastDone = "Pause"

\* C17 witness: with calls made one at a time, a Pause call returned nil
\* and a later Resume call failed; the flag is still true and pgbouncer is
\* still paused.
C17_Witness ==
    \E p, q \in Procs :
        /\ AllIdle /\ ~unacked /\ ~mixed
        /\ CommandSucceeded(p) /\ op[p] = "Pause"
        /\ Returned(q) /\ op[q] = "Resume" /\ ret[q] # Nil
        /\ paused /\ proxy = "PAUSE" /\ lastDone = "Pause"

\* C18: Pause and Resume do not look at the flag: either can be called
\* whatever the flag is, a call that has returned has asked for its
\* connection, one whose connection was made has run its command, one that
\* returned nil has stored its value, and after the store the flag is true
\* for Pause and false for Resume whatever it was before.
C18_FlagNeverConsulted ==
    \A p \in Procs :
        /\ pc[p] = "idle" => (ENABLED StartPause(p) /\ ENABLED StartResume(p))
        /\ Returned(p) =>
             /\ conns[p] = 1
             /\ db[p] # NoDb => execs[p] >= 1
             /\ ret[p] = Nil
                  => wrote[p] = (IF op[p] = "Pause" THEN "true" ELSE "false")
        /\ pc[p] = "unlock" => (paused <=> op[p] = "Pause")

\* C18 witness: a goroutine whose Pause call returned nil has called Pause
\* again, nothing else was ever called, and with the flag true all along
\* the second call has run PAUSE and is about to store true again.
C18_Witness ==
    \E p \in Procs :
        /\ op[p] = "Pause" /\ pc[p] = "write"
        /\ lastDone = "Pause" /\ paused
        /\ conns[p] = 1 /\ execs[p] >= 1 /\ proxy = "PAUSE"
        /\ \A q \in Procs \ {p} : op[q] = "none"

\* The goroutines that are between taking the exclusive lock and releasing
\* it, and those between taking the shared lock and releasing it.
Writing == {p \in Procs : pc[p] \in {"write", "unlock"}}
Reading == {p \in Procs : pc[p] \in {"read", "runlock"}}

\* A step that changes the flag is the store of a goroutine that holds the
\* exclusive lock.
C19_WriteStep ==
    paused' # paused
    => \E p \in Procs :
          pc[p] = "write" /\ writer = p /\ readers = {} /\ pc'[p] = "unlock"

\* C19: the flag is stored only by the holder of the exclusive lock and read
\* only by holders of the shared lock; at most one goroutine is between Lock
\* and Unlock, and then none is between RLock and RUnlock.
C19_FlagLockProtected ==
    /\ [][C19_WriteStep]_vars
    /\ [](/\ Writing = (IF writer = NoProc THEN {} ELSE {writer})
          /\ Reading = readers
          /\ Cardinality(Writing) <= 1
          /\ Writing # {} => Reading = {})

\* C19 witness: two Paused calls hold the shared lock together, one about
\* to read the flag and one having read it.
C19_Witness ==
    \E p, q \in Procs :
        /\ p # q
        /\ pc[p] = "read" /\ pc[q] = "runlock"
        /\ {p, q} \subseteq readers /\ writer = NoProc

====
